---- MODULE Spec2Model ----
(***************************************************************************)
(* EWasm binary encoder (libyul/backends/wasm/BinaryTransform.cpp).        *)
(*                                                                         *)
(* Bytes are naturals 0..255 and byte vectors are sequences of bytes.      *)
(* Names are strings; asBytes gives their characters.  A std::map is a     *)
(* function whose DOMAIN is its key set.  An operation that can throw      *)
(* (yulAssert, map::at, vector::at, boost::get) yields a record with       *)
(* ok = FALSE, and the exception unwinds every active call of run.         *)
(*                                                                         *)
(* run is modelled as a stack of frames, one per active invocation; each   *)
(* frame holds the invocation's module, its BinaryTransform instance bt,   *)
(* its accumulating buffer ret and its position pc.                        *)
(***************************************************************************)
EXTENDS Integers, Sequences, FiniteSets, TLC

VARIABLES
    module,     \* the Module handed to the outermost run
    stack,      \* active invocations of run, outermost first
    outcome,     \* what the outermost run gave its caller
    lowered,    \* history: every expression lowered, with the bytes it gave
    lebKind,    \* codec specification: which encoder is applied
    lebN,       \* codec specification: its argument
    lebOut      \* codec specification: its result (<<>> before the call)

vars == <<module, stack, outcome, lowered, lebKind, lebN, lebOut>>

\* ------------------------------------------------------------------ bounds

\* lebEncode / lebEncodeSigned are applied to every integer in -LebMax..LebMax.
LebMax == 300

\* Number of function definitions of the large module (indices 0..BigFuncs-1).
BigFuncs == 257

\* The largest number of literals in the main of an embedded leaf module.
MaxLiterals == 3

\* ------------------------------------------------------ enums (lines 36-93)

SectionCUSTOM == 0
SectionTYPE == 1
SectionIMPORT == 2
SectionFUNCTION == 3
SectionMEMORY == 5
SectionGLOBAL == 6
SectionEXPORT == 7
SectionCODE == 10

ValueTypeVoid == 64
ValueTypeFunction == 96
ValueTypeI64 == 126
ValueTypeI32 == 127

ExportFunction == 0
ExportMemory == 2

OpcodeUnreachable == 0
OpcodeBlock == 2
OpcodeLoop == 3
OpcodeIf == 4
OpcodeElse == 5
OpcodeEnd == 11
OpcodeCall == 16
OpcodeLocalGet == 32
OpcodeLocalSet == 33
OpcodeGlobalGet == 35
OpcodeGlobalSet == 36
OpcodeI64Const == 66

builtins ==
    ("i32.load" :> 40) @@ ("i64.load" :> 41) @@ ("i32.load8_s" :> 44) @@
    ("i32.load8_u" :> 45) @@ ("i32.load16_s" :> 46) @@ ("i32.load16_u" :> 47) @@
    ("i64.load8_s" :> 48) @@ ("i64.load8_u" :> 49) @@ ("i64.load16_s" :> 50) @@
    ("i64.load16_u" :> 51) @@ ("i64.load32_s" :> 52) @@ ("i64.load32_u" :> 53) @@
    ("i32.store" :> 54) @@ ("i64.store" :> 55) @@ ("i32.store8" :> 58) @@
    ("i32.store16" :> 59) @@ ("i64.store8" :> 60) @@ ("i64.store16" :> 61) @@
    ("i64.store32" :> 62) @@ ("memory.size" :> 63) @@ ("memory.grow" :> 64) @@
    ("i32.eqz" :> 69) @@ ("i32.eq" :> 70) @@ ("i32.ne" :> 71) @@
    ("i32.lt_s" :> 72) @@ ("i32.lt_u" :> 73) @@ ("i32.gt_s" :> 74) @@
    ("i32.gt_u" :> 75) @@ ("i32.le_s" :> 76) @@ ("i32.le_u" :> 77) @@
    ("i32.ge_s" :> 78) @@ ("i32.ge_u" :> 79) @@ ("i64.eqz" :> 80) @@
    ("i64.eq" :> 81) @@ ("i64.ne" :> 82) @@ ("i64.lt_s" :> 83) @@
    ("i64.lt_u" :> 84) @@ ("i64.gt_s" :> 85) @@ ("i64.gt_u" :> 86) @@
    ("i64.le_s" :> 87) @@ ("i64.le_u" :> 88) @@ ("i64.ge_s" :> 89) @@
    ("i64.ge_u" :> 90) @@ ("i32.clz" :> 103) @@ ("i32.ctz" :> 104) @@
    ("i32.popcnt" :> 105) @@ ("i32.add" :> 106) @@ ("i32.sub" :> 107) @@
    ("i32.mul" :> 108) @@ ("i32.div_s" :> 109) @@ ("i32.div_u" :> 110) @@
    ("i32.rem_s" :> 111) @@ ("i32.rem_u" :> 112) @@ ("i32.and" :> 113) @@
    ("i32.or" :> 114) @@ ("i32.xor" :> 115) @@ ("i32.shl" :> 116) @@
    ("i32.shr_s" :> 117) @@ ("i32.shr_u" :> 118) @@ ("i32.rotl" :> 119) @@
    ("i32.rotr" :> 120) @@ ("i64.clz" :> 121) @@ ("i64.ctz" :> 122) @@
    ("i64.popcnt" :> 123) @@ ("i64.add" :> 124) @@ ("i64.sub" :> 125) @@
    ("i64.mul" :> 126) @@ ("i64.div_s" :> 127) @@ ("i64.div_u" :> 128) @@
    ("i64.rem_s" :> 129) @@ ("i64.rem_u" :> 130) @@ ("i64.and" :> 131) @@
    ("i64.or" :> 132) @@ ("i64.xor" :> 133) @@ ("i64.shl" :> 134) @@
    ("i64.shr_s" :> 135) @@ ("i64.shr_u" :> 136) @@ ("i64.rotl" :> 137) @@
    ("i64.rotr" :> 138) @@ ("i32.wrap_i64" :> 167) @@ ("i64.extend_i32_s" :> 172) @@
    ("i64.extend_i32_u" :> 173)

\* Names n of the table with n.find(".load") != npos or n.find(".store") != npos.
hasMemarg(functionName) ==
    functionName \in
        {"i32.load", "i64.load", "i32.load8_s", "i32.load8_u", 
        "i32.load16_s", "i32.load16_u", "i64.load8_s", "i64.load8_u", "i64.load16_s", 
        "i64.load16_u", "i64.load32_s", "i64.load32_u", "i32.store", "i64.store", 
        "i32.store8", "i32.store16", "i64.store8", "i64.store16", "i64.store32"}

opcode(o) == <<o>>

\* ------------------------------------------------------------- LEB128 codec

\* C++ integer division truncates toward zero.
TruncDiv(n, d) == IF n >= 0 THEN n \div d ELSE -((-n) \div d)

RECURSIVE lebEncode(_)
lebEncode(n) ==
    IF n > 127
    THEN <<128 + (n % 128)>> \o lebEncode(n \div 128)
    ELSE <<n>>

RECURSIVE lebEncodeSigned(_)
lebEncodeSigned(n) ==
    IF n >= 0 /\ n < 64
    THEN <<n % 256>>
    ELSE IF -n > 0 /\ -n < 64
    THEN <<(n + 128) % 256>>
    ELSE <<128 + (n % 128)>> \o lebEncodeSigned(TruncDiv(n, 128))

\* ---------------------------------------------------- standard LEB128 decoder

RECURSIVE Pow128(_)
Pow128(k) == IF k = 0 THEN 1 ELSE 128 * Pow128(k - 1)

\* Index of the first byte at or after pos without the continuation bit
\* (Len(bs) + 1 when there is none).
RECURSIVE LebEnd(_, _)
LebEnd(bs, pos) ==
    IF pos > Len(bs) THEN pos
    ELSE IF bs[pos] < 128 THEN pos
    ELSE LebEnd(bs, pos + 1)

RECURSIVE LebPayload(_, _, _)
LebPayload(bs, pos, last) ==
    IF pos > last THEN 0
    ELSE (bs[pos] % 128) + 128 * LebPayload(bs, pos + 1, last)

\* Unsigned decoder: reads one integer starting at index pos.
LebRead(bs, pos) ==
    LET last == LebEnd(bs, pos)
    IN  IF last > Len(bs)
        THEN [ok |-> FALSE, val |-> 0, next |-> pos]
        ELSE [ok |-> TRUE, val |-> LebPayload(bs, pos, last), next |-> last + 1]

\* Signed decoder: 7 payload bits per byte, sign-extending from bit 6 of the
\* last byte.
LebReadSigned(bs, pos) ==
    LET last == LebEnd(bs, pos)
        u == LebPayload(bs, pos, last)
    IN  IF last > Len(bs)
        THEN [ok |-> FALSE, val |-> 0, next |-> pos]
        ELSE [ok |-> TRUE,
              val |-> IF (bs[last] \div 64) % 2 = 1
                      THEN u - Pow128(last - pos + 1) ELSE u,
              next |-> last + 1]

DecodesTo(r, bs, n) == r.ok /\ r.val = n /\ r.next = Len(bs) + 1

\* ------------------------------------------------------------------ strings

\* The characters of the strings the encoder writes into the output.
asBytes(s) ==
    CASE s = "main" -> <<109, 97, 105, 110>>
      [] s = "memory" -> <<109, 101, 109, 111, 114, 121>>
      [] s = "env" -> <<101, 110, 118>>
      [] s = "ext" -> <<101, 120, 116>>
      [] s = "a" -> <<97>>
      [] s = "b" -> <<98>>
      [] s = "c" -> <<99>>
      [] s = "sub" -> <<115, 117, 98>>
      [] OTHER -> <<63>>

encode(name) == lebEncode(Len(asBytes(name))) \o asBytes(name)

\* Mutant of prefixSize: the size counts one byte too many.
prefixSizeOffByOne(data) == lebEncode(Len(data) + 1) \o data

prefixSize(data) == lebEncode(Len(data)) \o data

\* --------------------------------------------------------------- std::map

EmptyMap == [k \in {} |-> 0]

Range(s) == {s[i] : i \in DOMAIN s}

Max(S) == CHOOSE x \in S : \A y \in S : y <= x

\* for (i ...) map[names[i]] = first + i, in order: the last assignment to a
\* key is the one that stays.
Assign(map, names, first) ==
    [n \in Range(names) |->
        first + Max({i \in DOMAIN names : names[i] = n}) - 1] @@ map

\* ------------------------------------------------------- wasm::Expression

Expr(k, n, v, a, s, h, e) ==
    [kind |-> k, name |-> n, value |-> v, args |-> a,
     statements |-> s, hasElse |-> h, elseStatements |-> e]

Literal(v) == Expr("Literal", "", v, <<>>, <<>>, FALSE, <<>>)
StringLiteral(s) == Expr("StringLiteral", s, 0, <<>>, <<>>, FALSE, <<>>)
LocalVariable(n) == Expr("LocalVariable", n, 0, <<>>, <<>>, FALSE, <<>>)
GlobalVariable(n) == Expr("GlobalVariable", n, 0, <<>>, <<>>, FALSE, <<>>)
BuiltinCall(n, a) == Expr("BuiltinCall", n, 0, a, <<>>, FALSE, <<>>)
FunctionCall(n, a) == Expr("FunctionCall", n, 0, a, <<>>, FALSE, <<>>)
LocalAssignment(n, v) == Expr("LocalAssignment", n, 0, <<v>>, <<>>, FALSE, <<>>)
GlobalAssignment(n, v) == Expr("GlobalAssignment", n, 0, <<v>>, <<>>, FALSE, <<>>)
If(c, s) == Expr("If", "", 0, <<c>>, s, FALSE, <<>>)
IfElse(c, s, e) == Expr("If", "", 0, <<c>>, s, TRUE, e)
Loop(l, s) == Expr("Loop", l, 0, <<>>, s, FALSE, <<>>)
Break(l) == Expr("Break", l, 0, <<>>, <<>>, FALSE, <<>>)
BreakIf(l, c) == Expr("BreakIf", l, 0, <<c>>, <<>>, FALSE, <<>>)
Block(s) == Expr("Block", "", 0, <<>>, s, FALSE, <<>>)

\* ------------------------------------------------------ expression lowering

Fail == [ok |-> FALSE, bytes |-> <<>>]
Ok(b) == [ok |-> TRUE, bytes |-> b]
Then(r, s) == IF r.ok /\ s.ok THEN Ok(r.bytes \o s.bytes) ELSE Fail

\* map.at(key): the entry, or std::out_of_range.
AtThen(map, key, op) ==
    IF key \in DOMAIN map THEN Ok(<<op>> \o lebEncode(map[key])) ELSE Fail

RECURSIVE LowerExpr(_, _)
RECURSIVE visit(_, _)

LowerLiteral(bt, e) == Ok(opcode(OpcodeI64Const) \o lebEncodeSigned(e.value))

LowerStringLiteral(bt, e) == Fail

LowerLocalVariable(bt, e) == AtThen(bt.m_locals, e.name, OpcodeLocalGet)

LowerGlobalVariable(bt, e) == AtThen(bt.m_globals, e.name, OpcodeGlobalGet)

\* dataoffset / datasize: arguments.at(0) must hold a StringLiteral naming a
\* recorded sub-module; which = 1 is .first (position), 2 is .second (size).
LowerDataRef(bt, e, which) ==
    IF Len(e.args) = 0 THEN Fail
    ELSE IF e.args[1].kind # "StringLiteral" THEN Fail
    ELSE IF e.args[1].name \notin DOMAIN bt.m_subModulePosAndSize THEN Fail
    ELSE Ok(opcode(OpcodeI64Const)
            \o lebEncodeSigned(bt.m_subModulePosAndSize[e.args[1].name][which]))

LowerBuiltinCall(bt, e) ==
    IF e.name = "dataoffset" THEN LowerDataRef(bt, e, 1)
    ELSE IF e.name = "datasize" THEN LowerDataRef(bt, e, 2)
    ELSE LET args == visit(bt, e.args)
         IN  IF ~args.ok THEN Fail
             ELSE IF e.name = "unreachable" THEN Ok(opcode(OpcodeUnreachable))
             ELSE IF e.name \notin DOMAIN builtins THEN Fail
             ELSE Ok(args.bytes \o <<builtins[e.name]>>
                     \o (IF hasMemarg(e.name) THEN <<3, 0>> ELSE <<>>))

\* push_back(m_functions.at(name)): the size_t index is narrowed to one byte.
LowerFunctionCall(bt, e) ==
    LET args == visit(bt, e.args)
    IN  IF ~args.ok \/ e.name \notin DOMAIN bt.m_functions THEN Fail
        ELSE Ok(args.bytes \o <<OpcodeCall>> \o <<bt.m_functions[e.name] % 256>>)

LowerLocalAssignment(bt, e) ==
    Then(LowerExpr(bt, e.args[1]), AtThen(bt.m_locals, e.name, OpcodeLocalSet))

LowerGlobalAssignment(bt, e) ==
    Then(LowerExpr(bt, e.args[1]), AtThen(bt.m_globals, e.name, OpcodeGlobalSet))

\* m_labels is pushed before and popped after the statements and never read.
LowerIf(bt, e) ==
    Then(LowerExpr(bt, e.args[1]),
    Then(Ok(opcode(OpcodeIf) \o <<ValueTypeVoid>>),
    Then(visit(bt, e.statements),
    Then(IF e.hasElse
         THEN Then(Ok(opcode(OpcodeElse)), visit(bt, e.elseStatements))
         ELSE Ok(<<>>),
         Ok(opcode(OpcodeEnd))))))

LowerLoop(bt, e) ==
    Then(Ok(opcode(OpcodeLoop) \o <<ValueTypeVoid>>),
    Then(visit(bt, e.statements), Ok(opcode(OpcodeEnd))))

\* Mutant of operator()(Break): the assertion is gone and return {} is reached.
LowerBreakEmpty(bt, e) == Ok(<<>>)

LowerBreak(bt, e) == Fail

LowerBreakIf(bt, e) == Fail

LowerBlock(bt, e) ==
    Then(Ok(opcode(OpcodeBlock) \o <<ValueTypeVoid>>),
    Then(visit(bt, e.statements), Ok(opcode(OpcodeEnd))))

\* boost::apply_visitor(*this, expr)
LowerExpr(bt, e) ==
    CASE e.kind = "Literal" -> LowerLiteral(bt, e)
      [] e.kind = "StringLiteral" -> LowerStringLiteral(bt, e)
      [] e.kind = "LocalVariable" -> LowerLocalVariable(bt, e)
      [] e.kind = "GlobalVariable" -> LowerGlobalVariable(bt, e)
      [] e.kind = "BuiltinCall" -> LowerBuiltinCall(bt, e)
      [] e.kind = "FunctionCall" -> LowerFunctionCall(bt, e)
      [] e.kind = "LocalAssignment" -> LowerLocalAssignment(bt, e)
      [] e.kind = "GlobalAssignment" -> LowerGlobalAssignment(bt, e)
      [] e.kind = "If" -> LowerIf(bt, e)
      [] e.kind = "Loop" -> LowerLoop(bt, e)
      [] e.kind = "Break" -> LowerBreak(bt, e)
      [] e.kind = "BreakIf" -> LowerBreakIf(bt, e)
      [] e.kind = "Block" -> LowerBlock(bt, e)

visit(bt, expressions) ==
    IF expressions = <<>> THEN Ok(<<>>)
    ELSE Then(LowerExpr(bt, Head(expressions)), visit(bt, Tail(expressions)))

\* Mutant of the rebuilding of m_locals: m_locals.clear() is missing.
FunctionLocalsKept(m_locals, fun) ==
    Assign(m_locals, fun.parameterNames \o fun.locals, 0)

\* m_locals.clear(), then parameters and locals numbered from 0.
FunctionLocals(m_locals, fun) ==
    Assign(EmptyMap, fun.parameterNames \o fun.locals, 0)

\* operator()(FunctionDefinition const&): the body bytes and the m_locals it
\* leaves behind.
LowerFunctionDefinition(bt, fun) ==
    LET locals == FunctionLocals(bt.m_locals, fun)
        body == visit([bt EXCEPT !.m_locals = locals], fun.body)
    IN  [ok |-> body.ok,
         bytes |-> IF body.ok
                   THEN prefixSize(lebEncode(1) \o lebEncode(Len(fun.locals))
                                   \o <<ValueTypeI64>> \o body.bytes
                                   \o <<OpcodeEnd>>)
                   ELSE <<>>,
         m_locals |-> locals]

\* ------------------------------------------------------------ type section

encodeType(typeName) ==
    IF typeName = "i32" THEN Ok(<<ValueTypeI32>>)
    ELSE IF typeName = "i64" THEN Ok(<<ValueTypeI64>>)
    ELSE Fail

RECURSIVE encodeTypes(_)
encodeTypes(typeNames) ==
    IF typeNames = <<>> THEN Ok(<<>>)
    ELSE Then(encodeType(Head(typeNames)), encodeTypes(Tail(typeNames)))

\* A Type is the pair <<parameter bytes, return bytes>>.
typeOfImport(import) ==
    LET p == encodeTypes(import.paramTypes)
        r == encodeTypes(import.returnType)
    IN  [ok |-> p.ok /\ r.ok, type |-> <<p.bytes, r.bytes>>]

typeOfDefinition(funDef) ==
    [ok |-> TRUE,
     type |-> <<[i \in 1..Len(funDef.parameterNames) |-> ValueTypeI64],
                IF funDef.returns THEN <<ValueTypeI64>> ELSE <<>>>>]

\* operator< of std::vector<uint8_t> and of std::pair: the order in which
\* std::map<Type, ...> is iterated.
RECURSIVE LexLess(_, _)
LexLess(a, b) ==
    IF b = <<>> THEN FALSE
    ELSE IF a = <<>> THEN TRUE
    ELSE IF a[1] # b[1] THEN a[1] < b[1]
    ELSE LexLess(Tail(a), Tail(b))

TypeLess(s, t) == LexLess(s[1], t[1]) \/ (s[1] = t[1] /\ LexLess(s[2], t[2]))

RECURSIVE SortTypes(_)
SortTypes(S) ==
    IF S = {} THEN <<>>
    ELSE LET m == CHOOSE x \in S : \A y \in S : ~TypeLess(y, x)
         IN  <<m>> \o SortTypes(S \ {m})

TypeEntry(type) ==
    <<ValueTypeFunction>> \o lebEncode(Len(type[1])) \o type[1]
                          \o lebEncode(Len(type[2])) \o type[2]

RECURSIVE TypeEntries(_)
TypeEntries(types) ==
    IF types = <<>> THEN <<>>
    ELSE TypeEntry(Head(types)) \o TypeEntries(Tail(types))

\* Mutant of the type index: index++ comes before the names are recorded.
TypeIndexFromOne(i) == i

\* The index typeSection stores for a function whose type is the i-th key.
TypeIndex(i) == i - 1

\* typeSection: the section bytes and the m_functionTypes it fills.
typeSection(bt, imports, functions) ==
    LET sigs == [i \in 1..Len(imports) |-> typeOfImport(imports[i])]
                \o [i \in 1..Len(functions) |-> typeOfDefinition(functions[i])]
        names == [i \in 1..Len(imports) |-> imports[i].internalName]
                 \o [i \in 1..Len(functions) |-> functions[i].name]
        types == SortTypes({sigs[i].type : i \in DOMAIN sigs})
        at(n) == Max({k \in DOMAIN types :
                         \E i \in DOMAIN names :
                             names[i] = n /\ sigs[i].type = types[k]})
    IN  IF \E i \in DOMAIN sigs : ~sigs[i].ok
        THEN [ok |-> FALSE, bytes |-> <<>>, m_functionTypes |-> bt.m_functionTypes]
        ELSE [ok |-> TRUE,
              bytes |-> <<SectionTYPE>>
                        \o prefixSize(lebEncode(Len(types)) \o TypeEntries(types)),
              m_functionTypes |->
                  [n \in Range(names) |-> TypeIndex(at(n))] @@ bt.m_functionTypes]

\* ------------------------------------------------------- section emitters

\* m_functionTypes[name]: operator[] gives 0 for an absent key.
Lookup(map, key) == IF key \in DOMAIN map THEN map[key] ELSE 0

RECURSIVE ImportEntries(_, _)
ImportEntries(bt, imports) ==
    IF imports = <<>> THEN <<>>
    ELSE encode(Head(imports).module) \o encode(Head(imports).externalName)
         \o <<0>> \o lebEncode(Lookup(bt.m_functionTypes, Head(imports).internalName))
         \o ImportEntries(bt, Tail(imports))

importSection(bt, imports) ==
    <<SectionIMPORT>>
    \o prefixSize(lebEncode(Len(imports)) \o ImportEntries(bt, imports))

\* The concatenation parts[lo] \o ... \o parts[hi].
RECURSIVE Concat(_, _, _)
Concat(parts, lo, hi) ==
    IF lo > hi THEN <<>>
    ELSE IF lo = hi THEN parts[lo]
    ELSE Concat(parts, lo, (lo + hi) \div 2)
         \o Concat(parts, (lo + hi) \div 2 + 1, hi)

\* m_functionTypes.at(fun.name) for each definition.
FunctionEntries(bt, functions) ==
    IF \E i \in DOMAIN functions : functions[i].name \notin DOMAIN bt.m_functionTypes
    THEN Fail
    ELSE Ok(Concat([i \in DOMAIN functions |->
                       lebEncode(bt.m_functionTypes[functions[i].name])],
                   1, Len(functions)))

functionSection(bt, functions) ==
    LET entries == FunctionEntries(bt, functions)
    IN  IF ~entries.ok THEN Fail
        ELSE Ok(<<SectionFUNCTION>>
                \o prefixSize(lebEncode(Len(functions)) \o entries.bytes))

memorySection == <<SectionMEMORY>> \o prefixSize(lebEncode(1) \o <<0>> \o <<1>>)

RECURSIVE GlobalEntries(_)
GlobalEntries(n) ==
    IF n = 0 THEN <<>>
    ELSE <<ValueTypeI64, 1>> \o opcode(OpcodeI64Const) \o lebEncodeSigned(0)
         \o opcode(OpcodeEnd) \o GlobalEntries(n - 1)

globalSection(bt) ==
    LET size == Cardinality(DOMAIN bt.m_globals)
    IN  <<SectionGLOBAL>> \o prefixSize(lebEncode(size) \o GlobalEntries(size))

exportSection(bt) ==
    IF "main" \notin DOMAIN bt.m_functions THEN Fail
    ELSE Ok(<<SectionEXPORT>>
            \o prefixSize(lebEncode(2)
                          \o encode("memory") \o <<ExportMemory>> \o lebEncode(0)
                          \o encode("main") \o <<ExportFunction>>
                          \o lebEncode(bt.m_functions["main"])))

customSection(name, data) == <<SectionCUSTOM>> \o prefixSize(encode(name) \o data)

\* codeSection after its loop: result holds the count and the bodies.
codeSection(result) == <<SectionCODE>> \o prefixSize(result)

\* ---------------------------------------------------------------- history

\* The expressions operator() is applied to when e is lowered: e and, except
\* under dataoffset / datasize (whose arguments are only read), its operands.
RECURSIVE SubExprs(_)
RECURSIVE SubExprsOf(_)
SubExprs(e) ==
    IF e.kind = "BuiltinCall" /\ e.name \in {"dataoffset", "datasize"}
    THEN {e}
    ELSE {e} \cup SubExprsOf(e.args) \cup SubExprsOf(e.statements)
             \cup SubExprsOf(e.elseStatements)

SubExprsOf(expressions) ==
    UNION {SubExprs(expressions[i]) : i \in DOMAIN expressions}

\* What each expression lowered in the body of function i returned, bt being
\* the encoder while that body is lowered.
LoweredBy(bt, fun, i, path) ==
    {[path |-> path, fun |-> fun.name, index |-> i, expr |-> e,
      bytes |-> LowerExpr(bt, e).bytes] : e \in SubExprsOf(fun.body)}

\* --------------------------------------------------------- BinaryTransform::run

NewBinaryTransform ==
    [m_locals |-> EmptyMap, m_globals |-> EmptyMap, m_functions |-> EmptyMap,
     m_functionTypes |-> EmptyMap, m_subModulePosAndSize |-> EmptyMap]

\* A fresh invocation of run on mod; path names the sub-modules it is nested in.
NewFrame(mod, path) ==
    [mod |-> mod, path |-> path, pc |-> "resolve", sub |-> 1, fun |-> 1,
     ret |-> <<>>, result |-> <<>>, bt |-> NewBinaryTransform]

Top == stack[Len(stack)]

SetTop(f) == stack' = [stack EXCEPT ![Len(stack)] = f]

At(pc) == stack # <<>> /\ Top.pc = pc

\* An exception leaves every active invocation: the caller gets no bytes.
Throw ==
    /\ stack' = <<>>
    /\ outcome' = [status |-> "failed", bytes |-> <<>>]
    /\ UNCHANGED <<module, lowered, lebKind, lebN, lebOut>>

Step(f) ==
    /\ SetTop(f)
    /\ UNCHANGED <<module, outcome, lowered, lebKind, lebN, lebOut>>

ImportNames(mod) == [i \in 1..Len(mod.imports) |-> mod.imports[i].internalName]
FunctionNames(mod) == [i \in 1..Len(mod.functions) |-> mod.functions[i].name]

Resolve ==
    /\ At("resolve")
    /\ Step([Top EXCEPT
            !.bt.m_globals = Assign(EmptyMap, Top.mod.globals, 0),
            !.bt.m_functions =
                Assign(Assign(EmptyMap, ImportNames(Top.mod), 0),
                       FunctionNames(Top.mod), Len(Top.mod.imports)),
            !.pc = "header"])

Header ==
    /\ At("header")
    /\ Step([Top EXCEPT !.ret = <<0, 97, 115, 109>> \o <<1, 0, 0, 0>>,
                        !.pc = "type"])

TypeSection ==
    /\ At("type")
    /\ LET s == typeSection(Top.bt, Top.mod.imports, Top.mod.functions)
       IN  IF s.ok
           THEN Step([Top EXCEPT !.ret = @ \o s.bytes,
                                 !.bt.m_functionTypes = s.m_functionTypes,
                                 !.pc = "import"])
           ELSE Throw

ImportSection ==
    /\ At("import")
    /\ Step([Top EXCEPT !.ret = @ \o importSection(Top.bt, Top.mod.imports),
                        !.pc = "function"])

FunctionSection ==
    /\ At("function")
    /\ LET s == functionSection(Top.bt, Top.mod.functions)
       IN  IF s.ok
           THEN Step([Top EXCEPT !.ret = @ \o s.bytes, !.pc = "memory"])
           ELSE Throw

\* Mutant of run: the Global section is appended before the Memory section.
MemorySectionAfterGlobal ==
    /\ At("memory")
    /\ Step([Top EXCEPT !.ret = @ \o globalSection(Top.bt) \o memorySection,
                        !.pc = "export"])

MemorySection ==
    /\ At("memory")
    /\ Step([Top EXCEPT !.ret = @ \o memorySection, !.pc = "global"])

GlobalSection ==
    /\ At("global")
    /\ Step([Top EXCEPT !.ret = @ \o globalSection(Top.bt), !.pc = "export"])

ExportSection ==
    /\ At("export")
    /\ LET s == exportSection(Top.bt)
       IN  IF s.ok
           THEN Step([Top EXCEPT !.ret = @ \o s.bytes, !.pc = "subModules"])
           ELSE Throw

\* bytes data = BinaryTransform::run(sub.second): the call.
CallSubModule ==
    /\ At("subModules")
    /\ Top.sub <= Len(Top.mod.subModules)
    /\ stack' = Append(stack,
                       NewFrame(Top.mod.subModules[Top.sub].mod,
                                Append(Top.path, Top.mod.subModules[Top.sub].name)))
    /\ UNCHANGED <<module, outcome, lowered, lebKind, lebN, lebOut>>

\* Mutant of the recorded position: the length is not subtracted.
RecordedPosAfterData(ret, length) == Len(ret)

\* The position recorded for a sub-module whose data is the last length bytes
\* of ret.
RecordedPos(ret, length) == Len(ret) - length

\* The call returns data; the caller appends the custom section and records
\* where data lies.
ReturnSubModule ==
    /\ At("return")
    /\ Len(stack) > 1
    /\ LET caller == stack[Len(stack) - 1]
           name == caller.mod.subModules[caller.sub].name
           data == Top.ret
           length == Len(data)
           ret == caller.ret \o customSection(name, data)
       IN  stack' = [SubSeq(stack, 1, Len(stack) - 1) EXCEPT ![Len(stack) - 1] =
                        [caller EXCEPT
                            !.ret = ret,
                            !.bt.m_subModulePosAndSize =
                                (name :> <<RecordedPos(ret, length), length>>) @@ @,
                            !.sub = @ + 1]]
    /\ UNCHANGED <<module, outcome, lowered, lebKind, lebN, lebOut>>

\* codeSection: bytes result = lebEncode(_functions.size()).
CodeSection ==
    /\ At("subModules")
    /\ Top.sub > Len(Top.mod.subModules)
    /\ Step([Top EXCEPT !.result = lebEncode(Len(Top.mod.functions)),
                        !.fun = 1,
                        !.pc = "code"])

\* One turn of codeSection's loop: result += (*this)(fun).
LowerFunction ==
    /\ At("code")
    /\ Top.fun <= Len(Top.mod.functions)
    /\ LET f == LowerFunctionDefinition(Top.bt, Top.mod.functions[Top.fun])
       IN  IF f.ok
           THEN /\ SetTop([Top EXCEPT !.result = @ \o f.bytes,
                                      !.bt.m_locals = f.m_locals,
                                      !.fun = @ + 1])
                /\ lowered' = lowered
                       \cup LoweredBy([Top.bt EXCEPT !.m_locals = f.m_locals],
                                      Top.mod.functions[Top.fun], Top.fun, Top.path)
                /\ UNCHANGED <<module, outcome, lebKind, lebN, lebOut>>
           ELSE Throw

\* The loop is over: ret += the Code section.
CodeSectionEnd ==
    /\ At("code")
    /\ Top.fun > Len(Top.mod.functions)
    /\ Step([Top EXCEPT !.ret = @ \o codeSection(Top.result), !.pc = "return"])

\* The outermost run returns ret to its caller.
Return ==
    /\ At("return")
    /\ Len(stack) = 1
    /\ stack' = <<>>
    /\ outcome' = [status |-> "returned", bytes |-> Top.ret]
    /\ UNCHANGED <<module, lowered, lebKind, lebN, lebOut>>

\* ------------------------------------------------------------------ inputs

FunctionImport(m, e, i, p, r) ==
    [module |-> m, externalName |-> e, internalName |-> i,
     paramTypes |-> p, returnType |-> r]

FunctionDefinition(n, p, l, r, b) ==
    [name |-> n, parameterNames |-> p, locals |-> l, returns |-> r, body |-> b]

Module(g, i, f, s) ==
    [globals |-> g, imports |-> i, functions |-> f, subModules |-> s]

SubModule(n, m) == [name |-> n, mod |-> m]

Main(body) == FunctionDefinition("main", <<"p", "q">>, <<"u", "v">>, FALSE, body)

\* A module whose main holds count literals: its encoding grows with count.
Leaf(count) ==
    Module(<<>>, <<>>,
           <<FunctionDefinition("main", <<>>, <<>>, FALSE,
                                [i \in 1..count |-> Literal(0)])>>,
           <<>>)

DataOffset(n) == BuiltinCall("dataoffset", <<StringLiteral(n)>>)
DataSize(n) == BuiltinCall("datasize", <<StringLiteral(n)>>)

\* Bodies the encoder lowers without error when they are the body of main
\* (parameters p, q and locals u, v) in a module with global g, functions
\* imp, f, main, h and sub-module a.
GoodBodies ==
    { <<>>,
      <<Literal(7)>>,
      <<Literal(-1), Literal(64), Literal(-64), Literal(300)>>,
      <<LocalVariable("p"), LocalVariable("q")>>,
      <<LocalVariable("u"), LocalVariable("v")>>,
      <<LocalVariable("u"), LocalVariable("p")>>,
      <<LocalAssignment("p", LocalVariable("u"))>>,
      <<LocalAssignment("v", LocalVariable("p"))>>,
      <<LocalAssignment("q", Literal(2)), LocalAssignment("u", Literal(3))>>,
      <<GlobalVariable("g")>>,
      <<GlobalAssignment("g", Literal(1))>>,
      <<BuiltinCall("i32.load", <<Literal(0)>>)>>,
      <<BuiltinCall("i64.add", <<Literal(1), Literal(2)>>)>>,
      <<BuiltinCall("i64.store", <<Literal(0), LocalVariable("u")>>)>>,
      <<BuiltinCall("memory.size", <<>>)>>,
      <<If(Literal(1), <<Literal(2)>>)>>,
      <<IfElse(Literal(1), <<Literal(2)>>, <<Literal(3)>>)>>,
      <<Loop("l", <<Literal(1)>>)>>,
      <<Block(<<Literal(1), Block(<<>>)>>)>>,
      <<FunctionCall("f", <<Literal(1), Literal(2), LocalVariable("p")>>)>>,
      <<FunctionCall("imp", <<Literal(1), Literal(2)>>)>>,
      <<FunctionCall("main", <<>>), FunctionCall("h", <<Literal(1)>>)>>,
      <<BuiltinCall("unreachable", <<>>)>>,
      <<BuiltinCall("unreachable", <<Literal(5)>>)>>,
      <<BuiltinCall("unreachable", <<Literal(1), LocalVariable("q")>>)>>,
      <<DataOffset("a")>>,
      <<DataSize("a"), DataOffset("a")>>,
      <<BuiltinCall("dataoffset", <<StringLiteral("a"), Break("l")>>)>>,
      <<BuiltinCall("datasize", <<StringLiteral("a"), StringLiteral("b")>>)>>,
      <<BuiltinCall("dataoffset", <<StringLiteral("a"), BuiltinCall("i64.foo", <<>>)>>)>>,
      <<BuiltinCall("datasize", <<StringLiteral("a"), LocalVariable("nope"),
                                  DataOffset("b")>>)>> }

\* Bodies on which lowering throws.
BadBodies ==
    { <<Break("l")>>,
      <<BreakIf("l", Literal(1))>>,
      <<Loop("l", <<Break("l")>>)>>,
      <<IfElse(Literal(1), <<>>, <<BreakIf("l", Literal(0))>>)>>,
      <<StringLiteral("a")>>,
      <<BuiltinCall("i64.add", <<StringLiteral("a"), Literal(1)>>)>>,
      <<BuiltinCall("i64.foo", <<>>)>>,
      <<BuiltinCall("unreachable", <<Break("l")>>)>>,
      <<DataOffset("b")>>,
      <<DataSize("c")>>,
      <<BuiltinCall("dataoffset", <<>>)>>,
      <<BuiltinCall("datasize", <<Literal(1)>>)>>,
      <<FunctionCall("nope", <<>>)>>,
      <<Literal(1), LocalVariable("x")>>,
      <<LocalVariable("t")>>,
      <<LocalAssignment("z", Literal(1))>>,
      <<GlobalVariable("p")>>,
      <<GlobalAssignment("h", Literal(1))>> }

Bodies == GoodBodies \cup BadBodies

F == FunctionDefinition("f", <<"x", "y", "z">>, <<"t">>, TRUE,
                        <<LocalAssignment("t", LocalVariable("z"))>>)

H(body) == FunctionDefinition("h", <<"u">>, <<"p">>, FALSE, body)

Imp == FunctionImport("env", "ext", "imp", <<"i32", "i64">>, <<"i64">>)

\* body as the body of main (inMain) or of h, which is lowered after main.
BodyModule(body, inMain) ==
    Module(<<"g">>, <<Imp>>,
           IF inMain THEN <<F, Main(body), H(<<LocalVariable("p")>>)>>
                     ELSE <<F, Main(<<LocalVariable("p")>>), H(body)>>,
           <<SubModule("a", Leaf(0))>>)

BodyModules == {BodyModule(b, m) : b \in Bodies, m \in BOOLEAN}

\* Sub-modules a (which embeds c) and b; every module may refer to its own.
Mid(count, body) ==
    Module(<<>>, <<>>,
           <<FunctionDefinition("main", <<>>, <<>>, FALSE, body)>>,
           <<SubModule("c", Leaf(count))>>)

Nested(c1, c2, midBody, topBody) ==
    Module(<<"g">>, <<>>, <<Main(topBody)>>,
           <<SubModule("a", Mid(c1, midBody)), SubModule("b", Leaf(c2))>>)

MidBodies ==
    { <<>>, <<DataOffset("c")>>, <<DataSize("c")>>,
      <<DataSize("c"), DataOffset("c")>>, <<DataOffset("b")>> }

TopBodies ==
    { <<DataOffset("a"), DataSize("a")>>, <<DataOffset("b"), DataSize("b")>>,
      <<DataOffset("c")>> }

LeafCounts == {0, MaxLiterals}

NestedModules ==
    {Nested(c1, c2, m, t) :
        c1 \in LeafCounts, c2 \in LeafCounts, m \in MidBodies, t \in TopBodies}

\* A sub-module without main: its run throws inside the outer run.
BrokenSub ==
    Module(<<>>, <<>>, <<Main(<<>>)>>,
           <<SubModule("sub", Module(<<>>, <<>>, <<F>>, <<>>))>>)

\* main followed by BigFuncs - 1 more definitions; main calls the one with
\* function index target.
BigName(i) == "f" \o ToString(i)

Big(target) ==
    Module(<<>>, <<>>,
           [i \in 1..BigFuncs |->
               IF i = 1
               THEN FunctionDefinition("main", <<>>, <<>>, FALSE,
                                       <<FunctionCall(BigName(target), <<>>)>>)
               ELSE FunctionDefinition(BigName(i - 1), <<>>, <<>>, FALSE, <<>>)],
           <<>>)

BigModules == {Big(t) : t \in {1, 127, 128, 255, BigFuncs - 1}}

ImportLists ==
    { <<>>,
      <<Imp>>,
      <<FunctionImport("env", "ext", "i1", <<>>, <<>>),
        FunctionImport("env", "ext", "i2", <<"i64">>, <<"i64">>)>>,
      <<FunctionImport("env", "ext", "i1", <<"i32">>, <<"i32">>),
        FunctionImport("ext", "env", "i2", <<"i32">>, <<"i32">>),
        FunctionImport("env", "ext", "i3", <<"i64", "i64">>, <<>>)>>,
      <<FunctionImport("env", "ext", "i1", <<"f32">>, <<>>)>>,
      <<Imp, FunctionImport("env", "ext", "i2", <<"i64">>, <<"f64">>)>> }

SmallMain == FunctionDefinition("main", <<>>, <<>>, FALSE, <<>>)

DefinitionLists ==
    { <<SmallMain>>,
      <<F, SmallMain>>,
      <<SmallMain,
        FunctionDefinition("f1", <<"x">>, <<>>, TRUE, <<LocalVariable("x")>>),
        FunctionDefinition("f2", <<"y">>, <<"x">>, TRUE, <<LocalVariable("x")>>),
        FunctionDefinition("f3", <<>>, <<>>, FALSE, <<FunctionCall("f2", <<Literal(1)>>)>>)>>,
      <<FunctionDefinition("f1", <<"x">>, <<>>, FALSE, <<>>)>>,
      <<>> }

GlobalLists == { <<>>, <<"g">>, <<"g", "h">> }

SignatureModules ==
    {Module(g, i, f, <<>>) : g \in GlobalLists, i \in ImportLists, f \in DefinitionLists}

Modules ==
    BodyModules \cup NestedModules \cup {BrokenSub} \cup BigModules
    \cup SignatureModules

\* ------------------------------------------------------------ specification

Init ==
    /\ module \in Modules
    /\ stack = <<NewFrame(module, <<>>)>>
    /\ outcome = [status |-> "running", bytes |-> <<>>]
    /\ lowered = {}
    /\ lebKind = "none"
    /\ lebN = 0
    /\ lebOut = <<>>

Next ==
    \/ Resolve
    \/ Header
    \/ TypeSection
    \/ ImportSection
    \/ FunctionSection
    \/ MemorySection
    \/ GlobalSection
    \/ ExportSection
    \/ CallSubModule
    \/ ReturnSubModule
    \/ CodeSection
    \/ LowerFunction
    \/ CodeSectionEnd
    \/ Return

Spec == Init /\ [][Next]_vars

\* ------------------------------------------------- codec specification

InitLeb ==
    /\ lebKind \in {"unsigned", "signed"}
    /\ lebN \in (IF lebKind = "unsigned" THEN 0..LebMax ELSE (-LebMax)..LebMax)
    /\ lebOut = <<>>
    /\ module = Leaf(0)
    /\ stack = <<>>
    /\ outcome = [status |-> "running", bytes |-> <<>>]
    /\ lowered = {}

EncodeUnsigned ==
    /\ lebKind = "unsigned"
    /\ lebOut = <<>>
    /\ lebOut' = lebEncode(lebN)
    /\ UNCHANGED <<module, stack, outcome, lowered, lebKind, lebN>>

EncodeSigned ==
    /\ lebKind = "signed"
    /\ lebOut = <<>>
    /\ lebOut' = lebEncodeSigned(lebN)
    /\ UNCHANGED <<module, stack, outcome, lowered, lebKind, lebN>>

NextLeb == EncodeUnsigned \/ EncodeSigned

SpecLeb == InitLeb /\ [][NextLeb]_vars

\* ----------------------------------------------------- reading the output

\* The sections of the module lying in bs[pos .. end - 1]: for each its id,
\* the index of its first payload byte and its payload length; ok iff the walk
\* (id, length, skip length bytes) lands exactly on end.
RECURSIVE Sections(_, _, _)
Sections(bs, pos, end) ==
    IF pos = end THEN [ok |-> TRUE, secs |-> <<>>]
    ELSE IF pos + 1 >= end THEN [ok |-> FALSE, secs |-> <<>>]
    ELSE LET l == LebRead(SubSeq(bs, 1, end - 1), pos + 1)
         IN  IF ~l.ok \/ l.next + l.val > end
             THEN [ok |-> FALSE, secs |-> <<>>]
             ELSE LET rest == Sections(bs, l.next + l.val, end)
                  IN  [ok |-> rest.ok,
                       secs |-> <<[id |-> bs[pos], start |-> l.next, len |-> l.val]>>
                                \o rest.secs]

Magic == <<0, 97, 115, 109, 1, 0, 0, 0>>

\* The sections of a whole output.
SectionsOf(bs) ==
    IF Len(bs) < 8 THEN [ok |-> FALSE, secs |-> <<>>]
    ELSE Sections(bs, 9, Len(bs) + 1)

Ids(secs) == [i \in DOMAIN secs |-> secs[i].id]

\* A custom section's name bytes and the place of its data.
CustomParts(bs, sec) ==
    LET n == LebRead(SubSeq(bs, 1, sec.start + sec.len - 1), sec.start)
    IN  IF ~n.ok \/ n.next + n.val > sec.start + sec.len
        THEN [ok |-> FALSE, name |-> <<>>, start |-> 0, len |-> 0]
        ELSE [ok |-> TRUE,
              name |-> SubSeq(bs, n.next, n.next + n.val - 1),
              start |-> n.next + n.val,
              len |-> sec.start + sec.len - (n.next + n.val)]

\* Where the embedded bytes of the sub-module reached by path lie in bs, the
\* enclosing module lying in bs[start .. start + len - 1]: off is the number
\* of bytes of bs before them.
RECURSIVE Locate(_, _, _, _)
Locate(bs, start, len, path) ==
    IF path = <<>> THEN [ok |-> TRUE, off |-> start - 1, len |-> len]
    ELSE IF len < 8 THEN [ok |-> FALSE, off |-> 0, len |-> 0]
    ELSE LET w == Sections(bs, start + 8, start + len)
             hits == {i \in DOMAIN w.secs :
                         /\ w.secs[i].id = SectionCUSTOM
                         /\ CustomParts(bs, w.secs[i]).ok
                         /\ CustomParts(bs, w.secs[i]).name = asBytes(Head(path))}
         IN  IF ~w.ok \/ Cardinality(hits) # 1
             THEN [ok |-> FALSE, off |-> 0, len |-> 0]
             ELSE LET c == CustomParts(bs, w.secs[CHOOSE i \in hits : TRUE])
                  IN  Locate(bs, c.start, c.len, Tail(path))

\* The module path leads to.
RECURSIVE ModuleAt(_, _)
ModuleAt(mod, path) ==
    IF path = <<>> THEN mod
    ELSE ModuleAt((CHOOSE s \in Range(mod.subModules) : s.name = Head(path)).mod,
                  Tail(path))

\* Every finished invocation of run: its module and the bytes it returns.
Finished ==
    {[mod |-> stack[i].mod, bytes |-> stack[i].ret] :
        i \in {j \in DOMAIN stack : stack[j].pc = "return"}}
    \cup (IF outcome.status = "returned"
          THEN {[mod |-> module, bytes |-> outcome.bytes]} ELSE {})

Returned == outcome.status = "returned"

IsDataRef(e, fn) == e.kind = "BuiltinCall" /\ e.name = fn

\* ------------------------------------------------------------------ claims

\* C1: for every signed n, the standard signed LEB128 decoder applied to
\* lebEncodeSigned(n) yields n (and consumes exactly the encoding).
C1_SignedRoundTrip ==
    (lebKind = "signed" /\ lebOut # <<>>)
        => DecodesTo(LebReadSigned(lebOut, 1), lebOut, lebN)

\* C2: lebEncode(u) is one byte long iff 0 <= u <= 127, and
\* lebEncodeSigned(s) is one byte long iff -64 <= s <= 63.
C2_SingleByteRanges ==
    /\ (lebKind = "unsigned" /\ lebOut # <<>>)
           => ((Len(lebOut) = 1) <=> (0 <= lebN /\ lebN <= 127))
    /\ (lebKind = "signed" /\ lebOut # <<>>)
           => ((Len(lebOut) = 1) <=> (-64 <= lebN /\ lebN <= 63))

\* The value of the i64.const a dataoffset / datasize call was lowered to.
ConstValue(bytes) ==
    IF Len(bytes) >= 2 /\ bytes[1] = OpcodeI64Const
       /\ DecodesTo(LebReadSigned(bytes, 2), bytes, LebReadSigned(bytes, 2).val)
    THEN LebReadSigned(bytes, 2).val
    ELSE -1

Embedded(l) ==
    Locate(outcome.bytes, 1, Len(outcome.bytes), Append(l.path, l.expr.args[1].name))

Enclosing(l) == Locate(outcome.bytes, 1, Len(outcome.bytes), l.path)

\* C3 as stated: in the output of the outermost run, every dataoffset("X"),
\* also one lowered inside an embedded sub-module, gives the position in that
\* final output at which the embedded bytes of X begin, and every
\* datasize("X") gives their length.
C3_OffsetInFinalOutput ==
    Returned =>
        \A l \in lowered :
            /\ IsDataRef(l.expr, "dataoffset") =>
                   (Embedded(l).ok /\ ConstValue(l.bytes) = Embedded(l).off)
            /\ IsDataRef(l.expr, "datasize") =>
                   (Embedded(l).ok /\ ConstValue(l.bytes) = Embedded(l).len)

\* C3 amended: every dataoffset("X") gives the position at which the embedded
\* bytes of X begin, counted from the first byte of the output of the run
\* invocation that lowers the call (the module that directly embeds X), and
\* every datasize("X") gives the length of those embedded bytes.
C3_OffsetInEnclosingModule ==
    Returned =>
        \A l \in lowered :
            /\ IsDataRef(l.expr, "dataoffset") =>
                   /\ Embedded(l).ok /\ Enclosing(l).ok
                   /\ ConstValue(l.bytes) = Embedded(l).off - Enclosing(l).off
            /\ IsDataRef(l.expr, "datasize") =>
                   (Embedded(l).ok /\ ConstValue(l.bytes) = Embedded(l).len)

\* C3 witness: a run has returned in which both the outermost module and an
\* embedded one lowered a dataoffset, the outer one with a two-byte constant.
C3_Witness ==
    /\ Returned
    /\ \E l \in lowered : IsDataRef(l.expr, "dataoffset") /\ l.path = <<>>
                          /\ Len(l.bytes) > 2
    /\ \E l \in lowered : IsDataRef(l.expr, "dataoffset") /\ l.path # <<>>
    /\ \E l \in lowered : IsDataRef(l.expr, "datasize") /\ l.path # <<>>

\* The index the resolver assigns to name: imports numbered from 0 in
\* declaration order, then the definitions.
ResolverIndex(mod, name) ==
    LET names == ImportNames(mod) \o FunctionNames(mod)
    IN  (CHOOSE i \in DOMAIN names : names[i] = name) - 1

\* C4 as stated: for every FunctionCall lowered, the byte after the call opcode
\* 0x10 (the last byte emitted) equals the function index the resolver
\* assigned to the called name, whatever the number of functions.
C4_CallIndexByte ==
    \A l \in lowered :
        l.expr.kind = "FunctionCall" =>
            /\ Len(l.bytes) >= 2
            /\ l.bytes[Len(l.bytes) - 1] = OpcodeCall
            /\ l.bytes[Len(l.bytes)] = ResolverIndex(ModuleAt(module, l.path), l.expr.name)

\* C5: every output of run is, after its 8 header bytes, a sequence of
\* sections (one each of Type, Import, Function, Memory, Global, Export, one
\* Custom per sub-module, Code), each an id byte, the unsigned LEB128 of L and
\* exactly L payload bytes: the walk from byte 8 ends on the end of the output.
C5_SectionLengthPrefix ==
    \A f \in Finished :
        /\ SectionsOf(f.bytes).ok
        /\ Len(SectionsOf(f.bytes).secs) = 7 + Len(f.mod.subModules)
        /\ \A i \in DOMAIN SectionsOf(f.bytes).secs :
               LET s == SectionsOf(f.bytes).secs[i]
               IN  SubSeq(f.bytes, s.start - Len(lebEncode(s.len)), s.start - 1)
                       = lebEncode(s.len)

\* C5 witness: a module with sub-modules has been encoded, and one of its
\* sections has a payload of more than 127 bytes (a two-byte length).
C5_Witness ==
    /\ Returned
    /\ module.subModules # <<>>
    /\ \E i \in DOMAIN SectionsOf(outcome.bytes).secs :
           SectionsOf(outcome.bytes).secs[i].len > 127

\* C6: every output of run begins with 00 61 73 6D 01 00 00 00, followed by
\* sections with ids 1, 2, 3, 5, 6, 7, then one id 0 section per sub-module,
\* named as the sub-modules are in their iteration order, then id 10 last.
C6_LayoutAndOrder ==
    \A f \in Finished :
        LET w == SectionsOf(f.bytes)
            n == Len(f.mod.subModules)
        IN  /\ Len(f.bytes) >= 8
            /\ SubSeq(f.bytes, 1, 8) = Magic
            /\ w.ok
            /\ Ids(w.secs) = <<SectionTYPE, SectionIMPORT, SectionFUNCTION,
                               SectionMEMORY, SectionGLOBAL, SectionEXPORT>>
                             \o [i \in 1..n |-> SectionCUSTOM] \o <<SectionCODE>>
            /\ \A i \in 1..n :
                   /\ CustomParts(f.bytes, w.secs[6 + i]).ok
                   /\ CustomParts(f.bytes, w.secs[6 + i]).name
                          = asBytes(f.mod.subModules[i].name)

\* C6 witness: a module with two sub-modules has been encoded.
C6_Witness == Returned /\ Len(module.subModules) = 2

\* The entries of a Type section payload, each a pair <<parameter types,
\* return types>>, read from index pos on (count entries).
RECURSIVE TypeEntriesAt(_, _, _)
TypeEntriesAt(bs, pos, count) ==
    IF count = 0 THEN <<>>
    ELSE LET p == LebRead(bs, pos + 1)
             r == LebRead(bs, p.next + p.val)
         IN  <<<<SubSeq(bs, p.next, p.next + p.val - 1),
                 SubSeq(bs, r.next, r.next + r.val - 1)>>>>
             \o TypeEntriesAt(bs, r.next + r.val, count - 1)

TypesIn(bs, sec) ==
    TypeEntriesAt(bs, LebRead(bs, sec.start).next, LebRead(bs, sec.start).val)

\* The type indices of an Import section payload, read from index pos on.
RECURSIVE ImportTypesAt(_, _, _)
ImportTypesAt(bs, pos, count) ==
    IF count = 0 THEN <<>>
    ELSE LET m == LebRead(bs, pos)
             e == LebRead(bs, m.next + m.val)
             t == LebRead(bs, e.next + e.val + 1)
         IN  <<t.val>> \o ImportTypesAt(bs, t.next, count - 1)

ImportTypesIn(bs, sec) ==
    ImportTypesAt(bs, LebRead(bs, sec.start).next, LebRead(bs, sec.start).val)

\* The indices of bs[from .. to] at which a LEB128 integer starts.
LebStarts(bs, from, to) ==
    {from} \cup {i + 1 : i \in {j \in from..(to - 1) : bs[j] < 128}}

\* The type indices of a Function section payload.
FunctionTypesIn(bs, sec) ==
    LET first == LebRead(bs, sec.start).next
        last == sec.start + sec.len - 1
        starts == {i \in LebStarts(bs, first, last) : i <= last}
    IN  [k \in 1..Cardinality(starts) |->
            LebRead(bs, CHOOSE i \in starts :
                            Cardinality({j \in starts : j < i}) = k - 1).val]

\* A function's own signature, as Wasm type bytes.
TypeByte(typeName) == IF typeName = "i32" THEN ValueTypeI32 ELSE ValueTypeI64

SignatureOfImport(import) ==
    <<[k \in DOMAIN import.paramTypes |-> TypeByte(import.paramTypes[k])],
      [k \in DOMAIN import.returnType |-> TypeByte(import.returnType[k])]>>

SignatureOfDefinition(fun) ==
    <<[k \in DOMAIN fun.parameterNames |-> ValueTypeI64],
      IF fun.returns THEN <<ValueTypeI64>> ELSE <<>>>>

\* C7: in every output, the Type section holds each distinct signature of the
\* module's imports and definitions exactly once, and the type index written
\* for a function in the Import or Function section is the position, in the
\* Type section, of that function's own signature.
C7_TypeSectionCoherence ==
    \A f \in Finished :
        LET secs == SectionsOf(f.bytes).secs
            types == TypesIn(f.bytes, secs[1])
            imports == ImportTypesIn(f.bytes, secs[2])
            functions == FunctionTypesIn(f.bytes, secs[3])
        IN  /\ \A i, j \in DOMAIN types : types[i] = types[j] => i = j
            /\ Range(types) =
                   {SignatureOfImport(f.mod.imports[i]) : i \in DOMAIN f.mod.imports}
                   \cup {SignatureOfDefinition(f.mod.functions[i]) :
                            i \in DOMAIN f.mod.functions}
            /\ Len(imports) = Len(f.mod.imports)
            /\ Len(functions) = Len(f.mod.functions)
            /\ \A i \in DOMAIN imports :
                   /\ imports[i] + 1 \in DOMAIN types
                   /\ types[imports[i] + 1] = SignatureOfImport(f.mod.imports[i])
            /\ \A i \in DOMAIN functions :
                   /\ functions[i] + 1 \in DOMAIN types
                   /\ types[functions[i] + 1] = SignatureOfDefinition(f.mod.functions[i])

\* C7 witness: a module has been encoded whose imports and definitions share
\* signatures (fewer Type entries than functions) and use at least three.
C7_Witness ==
    /\ Returned
    /\ Len(module.imports) >= 2
    /\ Len(TypesIn(outcome.bytes, SectionsOf(outcome.bytes).secs[1])) >= 3
    /\ Len(TypesIn(outcome.bytes, SectionsOf(outcome.bytes).secs[1]))
           < Len(module.imports) + Len(module.functions)

\* Every expression e contains, the arguments of dataoffset / datasize too.
RECURSIVE AllExprs(_)
RECURSIVE AllExprsOf(_)
AllExprs(e) ==
    {e} \cup AllExprsOf(e.args) \cup AllExprsOf(e.statements)
        \cup AllExprsOf(e.elseStatements)

AllExprsOf(expressions) ==
    UNION {AllExprs(expressions[i]) : i \in DOMAIN expressions}

\* mod and every module embedded in it, directly or not.
RECURSIVE ModulesIn(_)
ModulesIn(mod) ==
    {mod} \cup UNION {ModulesIn(mod.subModules[i].mod) : i \in DOMAIN mod.subModules}

LocalNames(fun) == Range(fun.parameterNames) \cup Range(fun.locals)

IsLocalRef(e) == e.kind \in {"LocalVariable", "LocalAssignment"}

IsGlobalRef(e) == e.kind \in {"GlobalVariable", "GlobalAssignment"}

\* The errors of the claim an expression e of function fun of mod can hold.
IsBreak(e) == e.kind \in {"Break", "BreakIf"}

IsUnknownBuiltin(e) ==
    /\ e.kind = "BuiltinCall"
    /\ e.name \notin DOMAIN builtins \cup {"dataoffset", "datasize", "unreachable"}

IsMissingSubModule(e, mod) ==
    /\ e.kind = "BuiltinCall"
    /\ e.name \in {"dataoffset", "datasize"}
    /\ Len(e.args) >= 1
    /\ e.args[1].kind = "StringLiteral"
    /\ e.args[1].name \notin {mod.subModules[i].name : i \in DOMAIN mod.subModules}

IsUnresolved(e, mod, fun) ==
    \/ e.kind = "FunctionCall"
           /\ e.name \notin Range(ImportNames(mod)) \cup Range(FunctionNames(mod))
    \/ IsLocalRef(e) /\ e.name \notin LocalNames(fun)
    \/ IsGlobalRef(e) /\ e.name \notin Range(mod.globals)

NoMain(mod) == "main" \notin Range(ImportNames(mod)) \cup Range(FunctionNames(mod))

BadImportType(mod) ==
    \E i \in DOMAIN mod.imports :
        \E t \in Range(mod.imports[i].paramTypes) \cup Range(mod.imports[i].returnType) :
            t \notin {"i32", "i64"}

\* The claim's errors with "contains" read as written: a Break, an unknown
\* builtin, a missing sub-module or an unresolved name anywhere in a body, a
\* StringLiteral in a lowered position.
FatalAsStated(mod) ==
    \/ NoMain(mod)
    \/ BadImportType(mod)
    \/ \E i \in DOMAIN mod.functions :
           \/ \E e \in AllExprsOf(mod.functions[i].body) :
                  \/ IsBreak(e)
                  \/ IsUnknownBuiltin(e)
                  \/ IsMissingSubModule(e, mod)
                  \/ IsUnresolved(e, mod, mod.functions[i])
           \/ \E e \in SubExprsOf(mod.functions[i].body) : e.kind = "StringLiteral"

\* The same errors, each in a lowered position.
FatalLowered(mod) ==
    \/ NoMain(mod)
    \/ BadImportType(mod)
    \/ \E i \in DOMAIN mod.functions :
           \E e \in SubExprsOf(mod.functions[i].body) :
               \/ IsBreak(e)
               \/ IsUnknownBuiltin(e)
               \/ IsMissingSubModule(e, mod)
               \/ IsUnresolved(e, mod, mod.functions[i])
               \/ e.kind = "StringLiteral"

NoOutput ==
    /\ outcome.status # "returned"
    /\ outcome.bytes = <<>>
    /\ stack = <<>> => outcome.status = "failed"

\* C8 as stated: if the module (or one it embeds) has no main, an import with
\* a type name other than i32 / i64, or a function body that contains a Break,
\* a BreakIf, a StringLiteral in a lowered position, an unknown BuiltinCall, a
\* dataoffset / datasize of a sub-module not embedded or an unresolved name,
\* then run ends in a failure and returns no bytes.
C8_FatalAsStated ==
    (lebKind = "none" /\ \E m \in ModulesIn(module) : FatalAsStated(m)) => NoOutput

\* C8 amended: the same, where the Break, BreakIf, unknown BuiltinCall,
\* dataoffset / datasize of a sub-module not embedded or unresolved name is in
\* a lowered position, that is outside the arguments of dataoffset / datasize.
C8_FatalLowered ==
    (lebKind = "none" /\ \E m \in ModulesIn(module) : FatalLowered(m)) => NoOutput

\* C8 witness: the run of a module with a Break in a lowered position, and
\* with a main, has ended in failure.
C8_Witness ==
    /\ stack = <<>>
    /\ outcome.status = "failed"
    /\ ~NoMain(module)
    /\ \E i \in DOMAIN module.functions :
           \E e \in SubExprsOf(module.functions[i].body) : IsBreak(e)

\* The bytes the history holds for expression e of function index at path.
BytesOf(path, index, e) ==
    (CHOOSE l \in lowered : l.path = path /\ l.index = index /\ l.expr = e).bytes

\* C9 as stated: lowering BuiltinCall("unreachable", args) gives the lowered
\* bytes of every argument, in order, followed by the single byte 0x00.
C9_UnreachableKeepsArguments ==
    \A l \in lowered :
        (l.expr.kind = "BuiltinCall" /\ l.expr.name = "unreachable") =>
            l.bytes = Concat([k \in DOMAIN l.expr.args |->
                                 BytesOf(l.path, l.index, l.expr.args[k])],
                             1, Len(l.expr.args))
                      \o <<OpcodeUnreachable>>

\* The index of name among fun's parameters (from 0) and, after them, locals.
DeclaredIndex(fun, name) ==
    IF name \in Range(fun.parameterNames)
    THEN (CHOOSE i \in DOMAIN fun.parameterNames : fun.parameterNames[i] = name) - 1
    ELSE Len(fun.parameterNames)
         + (CHOOSE j \in DOMAIN fun.locals : fun.locals[j] = name) - 1

\* The indices at which the count length-prefixed bodies read from pos on
\* start, and the index after the last of them.
RECURSIVE BodiesAt(_, _, _)
BodiesAt(bs, pos, count) ==
    IF count = 0 THEN [starts |-> <<>>, next |-> pos]
    ELSE IF count = 1
    THEN IF LebRead(bs, pos).ok
         THEN [starts |-> <<LebRead(bs, pos).next>>,
               next |-> LebRead(bs, pos).next + LebRead(bs, pos).val]
         ELSE [starts |-> <<>>, next |-> pos]
    ELSE LET left == BodiesAt(bs, pos, count \div 2)
             right == BodiesAt(bs, left.next, count - count \div 2)
         IN  [starts |-> left.starts \o right.starts, next |-> right.next]

BodiesIn(bs, sec) ==
    BodiesAt(bs, LebRead(bs, sec.start).next, LebRead(bs, sec.start).val).starts

\* C10: while the body of a function f is lowered, a LocalVariable or
\* LocalAssignment naming f's i-th parameter emits index i and one naming its
\* j-th local emits (number of parameters) + j; no run returns that lowered a
\* name f does not declare, whatever was lowered before; and every body starts
\* with one group of (number of declared locals) i64 locals.
C10_LocalIndexScoping ==
    /\ \A l \in lowered :
           IsLocalRef(l.expr) =>
               LET fun == ModuleAt(module, l.path).functions[l.index]
                   op == IF l.expr.kind = "LocalVariable"
                         THEN <<OpcodeLocalGet>>
                         ELSE BytesOf(l.path, l.index, l.expr.args[1])
                              \o <<OpcodeLocalSet>>
               IN  /\ l.expr.name \in LocalNames(fun)
                   /\ Len(l.bytes) > Len(op)
                   /\ SubSeq(l.bytes, 1, Len(op)) = op
                   /\ LebRead(l.bytes, Len(op) + 1).ok
                   /\ LebRead(l.bytes, Len(op) + 1).next = Len(l.bytes) + 1
                   /\ LebRead(l.bytes, Len(op) + 1).val = DeclaredIndex(fun, l.expr.name)
    /\ Returned =>
           \A m \in ModulesIn(module) :
               \A i \in DOMAIN m.functions :
                   \A e \in SubExprsOf(m.functions[i].body) :
                       IsLocalRef(e) => e.name \in LocalNames(m.functions[i])
    /\ \A f \in Finished :
           LET secs == SectionsOf(f.bytes).secs
               code == secs[Len(secs)]
               bodies == BodiesIn(f.bytes, code)
           IN  /\ Len(bodies) = Len(f.mod.functions)
               /\ \A i \in DOMAIN bodies :
                      /\ f.bytes[bodies[i]] = 1
                      /\ LebRead(f.bytes, bodies[i] + 1).val = Len(f.mod.functions[i].locals)
                      /\ f.bytes[LebRead(f.bytes, bodies[i] + 1).next] = ValueTypeI64

\* C10 witness: a run has returned in which the name p was lowered as index 0
\* in main (a parameter) and as index 1 in h (a local), h lowered after main.
C10_Witness ==
    /\ Returned
    /\ \E l \in lowered :
           /\ l.expr = LocalVariable("p") /\ l.fun = "main" /\ l.bytes = <<32, 0>>
    /\ \E l \in lowered :
           /\ l.expr = LocalVariable("p") /\ l.fun = "h" /\ l.index = 3
           /\ l.bytes = <<32, 1>>

====
